---- MODULE Spec2Model ----
(***************************************************************************)
(* The retry engine of packages/utils/src/error/retry.ts (withRetry,       *)
(* isRetryableError, calculateDelay, delay, retryParallelCalls,            *)
(* retryApiCall) together with the error classifier and the ErrorLogger    *)
(* of error-handler.ts, retryTransaction of                                *)
(* packages/database/src/utils/transactions.ts and the GlobalErrorProvider *)
(* of packages/ui.                                                         *)
(*                                                                         *)
(* Specifications: Spec (one withRetry call), SpecFair (the same, with     *)
(* steps that complete), SpecThrowing (the same, with callbacks that may   *)
(* throw), SpecPar (one retryParallelCalls batch), SpecTx (one             *)
(* retryTransaction call), SpecClassify and SpecDelay (classifyError and   *)
(* calculateDelay applied to one argument list each), SpecLog (callers of  *)
(* the shared errorLogger), SpecProvider (one mounted GlobalErrorProvider).*)
(*                                                                         *)
(* JavaScript values are TLA+ records: an object is the record of its      *)
(* properties, a primitive is a record with the reserved field "prim".     *)
(* Strings that the code inspects (Error.name, Error.message) are          *)
(* sequences of one-character strings, so that toLowerCase() and           *)
(* includes() are computed and not assumed.  Durations are milliseconds.   *)
(***************************************************************************)
EXTENDS Integers, Sequences, FiniteSets, TLC

\* ------------------------------------------------------------------ bounds
\* Largest policy.maxRetries explored for a single withRetry call.
MaxRetriesBound == 2
\* Largest number of operations handed to retryParallelCalls.
MaxCalls == 2
\* Largest policy.maxRetries explored for a retryParallelCalls batch.
MaxRetriesPar == 1

\* ------------------------------------------------------- JavaScript values
Undefined == [prim |-> "undefined"]
Null == [prim |-> "null"]
Num(n) == [prim |-> "number", value |-> n]
Str(s) == [prim |-> "string", value |-> s]

IsPrim(v) == "prim" \in DOMAIN v

\* typeof v
TypeOf(v) ==
  IF IsPrim(v) THEN (IF v.prim = "null" THEN "object" ELSE v.prim) ELSE "object"

\* ToBoolean(v), as the && of retry.ts:250 applies it
Truthy(v) ==
  IF IsPrim(v)
  THEN CASE v.prim = "undefined" -> FALSE
         [] v.prim = "null" -> FALSE
         [] v.prim = "number" -> v.value # 0
         [] v.prim = "string" -> v.value # ""
         [] OTHER -> TRUE
  ELSE TRUE

\* 'k' in v, for an object v
HasProp(v, k) == ~IsPrim(v) /\ k \in DOMAIN v

\* ---------------------------------------------------------------- strings
UpperAlphabet ==
  << "A","B","C","D","E","F","G","H","I","J","K","L","M",
     "N","O","P","Q","R","S","T","U","V","W","X","Y","Z" >>
LowerAlphabet ==
  << "a","b","c","d","e","f","g","h","i","j","k","l","m",
     "n","o","p","q","r","s","t","u","v","w","x","y","z" >>

LowerChar(c) ==
  IF \E i \in DOMAIN UpperAlphabet : UpperAlphabet[i] = c
  THEN LowerAlphabet[CHOOSE i \in DOMAIN UpperAlphabet : UpperAlphabet[i] = c]
  ELSE c

\* String.prototype.toLowerCase
toLowerCase(s) == [i \in DOMAIN s |-> LowerChar(s[i])]

\* String.prototype.includes
includes(s, sub) ==
  \E i \in 1..(Len(s) - Len(sub) + 1) : SubSeq(s, i, i + Len(sub) - 1) = sub

\* ------------------------------------------------------------ error values
ErrorCode ==
  { "VALIDATION_ERROR", "INVALID_REQUEST", "UNAUTHORIZED", "FORBIDDEN",
    "NOT_FOUND", "CONFLICT", "RATE_LIMIT_EXCEEDED", "TOKEN_EXPIRED",
    "INVALID_TOKEN", "TOKEN_MISSING", "BUSINESS_RULE_VIOLATION",
    "RESOURCE_NOT_AVAILABLE", "OPERATION_NOT_ALLOWED", "INTERNAL_ERROR",
    "SERVICE_UNAVAILABLE", "DATABASE_ERROR", "EXTERNAL_SERVICE_ERROR" }

\* createErrorResponse({code, ...}): {success: false, error: {code, ...}}
createErrorResponse(code) == [success |-> FALSE, error |-> [code |-> code]]

\* new Error(message) with the given name
JsError(name, message) == [name |-> name, message |-> message]

isApiErrorResponse(error) ==
  /\ TypeOf(error) = "object"
  /\ error # Null
  /\ HasProp(error, "success")
  /\ error.success = FALSE
  /\ HasProp(error, "error")
  /\ TypeOf(error.error) = "object"
  /\ error.error # Null
  /\ HasProp(error.error, "code")

\* ------------------------------------------------------------- classifier
Classification(op, retry, sev, cat) ==
  [isOperational |-> op, isRetryable |-> retry, severity |-> sev, category |-> cat]

classifyApiErrorResponse(error) ==
  LET code == error.error.code IN
  CASE code \in {"VALIDATION_ERROR", "INVALID_REQUEST"} ->
         Classification(TRUE, FALSE, "low", "user")
    [] code \in {"UNAUTHORIZED", "TOKEN_EXPIRED", "INVALID_TOKEN", "TOKEN_MISSING"} ->
         Classification(TRUE, FALSE, "medium", "user")
    [] code \in {"FORBIDDEN", "OPERATION_NOT_ALLOWED"} ->
         Classification(TRUE, FALSE, "medium", "business")
    [] code \in {"NOT_FOUND", "RESOURCE_NOT_AVAILABLE"} ->
         Classification(TRUE, FALSE, "low", "user")
    [] code = "CONFLICT" ->
         Classification(TRUE, FALSE, "medium", "business")
    [] code = "RATE_LIMIT_EXCEEDED" ->
         Classification(TRUE, TRUE, "medium", "system")
    [] code \in {"SERVICE_UNAVAILABLE", "EXTERNAL_SERVICE_ERROR"} ->
         Classification(TRUE, TRUE, "high", "network")
    [] code = "DATABASE_ERROR" ->
         Classification(TRUE, TRUE, "high", "system")
    [] OTHER ->
         Classification(FALSE, FALSE, "critical", "system")

classifyJavaScriptError(error) ==
  LET message == toLowerCase(error.message)
      name == toLowerCase(error.name)
  IN
  IF \/ includes(message, <<"n","e","t","w","o","r","k">>)
     \/ includes(message, <<"f","e","t","c","h">>)
     \/ includes(message, <<"t","i","m","e","o","u","t">>)
     \/ includes(name, <<"t","i","m","e","o","u","t">>)
  THEN Classification(TRUE, TRUE, "medium", "network")
  ELSE IF \/ name = <<"v","a","l","i","d","a","t","i","o","n","e","r","r","o","r">>
          \/ includes(message, <<"v","a","l","i","d","a","t","i","o","n">>)
          \/ includes(message, <<"i","n","v","a","l","i","d">>)
  THEN Classification(TRUE, FALSE, "low", "user")
  ELSE IF \/ name = <<"t","y","p","e","e","r","r","o","r">>
          \/ name = <<"r","e","f","e","r","e","n","c","e","e","r","r","o","r">>
          \/ name = <<"s","y","n","t","a","x","e","r","r","o","r">>
  THEN Classification(FALSE, FALSE, "critical", "system")
  ELSE Classification(TRUE, FALSE, "medium", "system")

\* Variant: a programming defect is rated high instead of critical.
classifyError_defectsHigh(error) ==
  LET c == IF isApiErrorResponse(error)
           THEN classifyApiErrorResponse(error)
           ELSE classifyJavaScriptError(error)
  IN IF c.isOperational THEN c ELSE [c EXCEPT !.severity = "high"]

\* Variant: BUSINESS_RULE_VIOLATION has a row of its own in the table.
classifyError_businessRule(error) ==
  IF isApiErrorResponse(error)
  THEN IF error.error.code = "BUSINESS_RULE_VIOLATION"
       THEN Classification(TRUE, FALSE, "medium", "business")
       ELSE classifyApiErrorResponse(error)
  ELSE classifyJavaScriptError(error)

\* Variant: the names of programming defects are not recognised.
classifyError_defectsUnnamed(error) ==
  IF isApiErrorResponse(error)
  THEN classifyApiErrorResponse(error)
  ELSE LET c == classifyJavaScriptError(error)
       IN IF c.isOperational THEN c
          ELSE Classification(TRUE, FALSE, "medium", "system")

\* Variant: 'network' and 'fetch' are looked for in the name as well.
classifyError_networkByName(error) ==
  IF isApiErrorResponse(error)
  THEN classifyApiErrorResponse(error)
  ELSE IF \/ includes(toLowerCase(error.name), <<"n","e","t","w","o","r","k">>)
          \/ includes(toLowerCase(error.name), <<"f","e","t","c","h">>)
       THEN Classification(TRUE, TRUE, "medium", "network")
       ELSE classifyJavaScriptError(error)

classifyError(error) ==
  IF isApiErrorResponse(error)
  THEN classifyApiErrorResponse(error)
  ELSE classifyJavaScriptError(error)

\* ----------------------------------------------------------------- logger
\* Variant: medium severity is logged as an error.
getLogLevel_mediumAsError(classification) ==
  IF classification.severity = "low" THEN "info" ELSE "error"

\* ErrorLogger.getLogLevel
getLogLevel(classification) ==
  CASE classification.severity = "critical" -> "error"
    [] classification.severity = "high" -> "error"
    [] classification.severity = "medium" -> "warn"
    [] classification.severity = "low" -> "info"
    [] OTHER -> "error"

\* A record written to the console, as the trace of a call keeps it.
LogEvent(level, message) == [ev |-> "log", level |-> level, message |-> message]

\* Variant: only records of level error are written.
logError_errorsOnly(error, message) ==
  IF getLogLevel(classifyError(error)) = "error"
  THEN << LogEvent("error", message) >>
  ELSE << >>

\* ErrorLogger.logError(error, message, ctx): one record at the classified level
logError(error, message) ==
  << LogEvent(getLogLevel(classifyError(error)), message) >>

\* ErrorLogger.logWarning / logInfo
logWarning(message) == << LogEvent("warn", message) >>
logInfo(message) == << LogEvent("info", message) >>

\* ------------------------------------------------------------ retry policy
DefaultRetryableErrors ==
  { "RATE_LIMIT_EXCEEDED", "SERVICE_UNAVAILABLE",
    "EXTERNAL_SERVICE_ERROR", "DATABASE_ERROR" }

DEFAULT_RETRY_OPTIONS ==
  [ maxRetries |-> 3, baseDelay |-> 1000, maxDelay |-> 30000,
    backoffMultiplier |-> 2, retryableErrors |-> DefaultRetryableErrors,
    onRetry |-> FALSE, onMaxRetriesReached |-> FALSE ]

\* const config = { ...DEFAULT_RETRY_OPTIONS, ...options }
MergeOptions(options) ==
  [k \in DOMAIN DEFAULT_RETRY_OPTIONS |->
     IF k \in DOMAIN options THEN options[k] ELSE DEFAULT_RETRY_OPTIONS[k]]

RECURSIVE Pow(_, _)
Pow(b, e) == IF e = 0 THEN 1 ELSE b * Pow(b, e - 1)

Min(a, b) == IF a <= b THEN a ELSE b

\* Math.random() draws, in tenths: 0 is 0.0 and 5 is 0.5.
RandomDraws == {0, 5}

\* Variant: the growth is counted from zero, base * (multiplier^(attempt-1) - 1).
calculateDelay_fromZero(attempt, baseDelay, maxDelay, backoffMultiplier, random) ==
  LET delay == baseDelay * (Pow(backoffMultiplier, attempt - 1) - 1)
      jitter == (random * delay) \div 100
  IN Min(delay + jitter, maxDelay)

\* Variant: the delay is not capped at maxDelay.
calculateDelay_uncapped(attempt, baseDelay, maxDelay, backoffMultiplier, random) ==
  LET delay == baseDelay * Pow(backoffMultiplier, attempt - 1)
      jitter == (random * delay) \div 100
  IN delay + jitter

\* calculateDelay; `random` is the Math.random() draw in tenths, so the jitter
\* random/10 * 0.1 * delay is random * delay / 100 (exact for the policies
\* explored).
calculateDelay(attempt, baseDelay, maxDelay, backoffMultiplier, random) ==
  LET delay == baseDelay * Pow(backoffMultiplier, attempt - 1)
      jitter == (random * delay) \div 100
  IN Min(delay + jitter, maxDelay)

\* Variant: a structured error is also retried when the classifier alone calls
\* it retryable (the list extends the classification instead of replacing it).
isRetryableError_either(error, retryableErrors) ==
  \/ classifyError(error).isRetryable
  \/ isApiErrorResponse(error) /\ error.error.code \in retryableErrors

isRetryableError(error, retryableErrors) ==
  IF isApiErrorResponse(error)
  THEN error.error.code \in retryableErrors
  ELSE classifyError(error).isRetryable

\* ------------------------------------------------- what an operation yields
E_RateLimit == createErrorResponse("RATE_LIMIT_EXCEEDED")
E_Validation == createErrorResponse("VALIDATION_ERROR")
E_Network ==
  JsError(<<"E","r","r","o","r">>, <<"N","e","t","w","o","r","k"," ","d","o","w","n">>)
E_Type == JsError(<<"T","y","p","e","E","r","r","o","r">>, <<"b","a","d">>)

\* The failures an operation may reject with.
Errors == {E_RateLimit, E_Validation, E_Network, E_Type}

V_Number == Num(42)
V_Data == [data |-> Num(1)]
V_ErrorField == [error |-> Str("x")]

\* The values an operation may resolve with.
Values == {V_Number, Null, V_Data, V_ErrorField}

\* ------------------------------------------------------------------ state
VARIABLES
  config,     \* the merged RetryOptions of the call(s)
  n,          \* number of operations: 1 for a withRetry call, apiCalls.length for a batch
  pc,         \* pc[i]: where withRetry loop i stands
  attempt,    \* attempt[i]: the loop variable
  lastError,  \* lastError[i]
  delayMs,    \* delayMs[i]: the timer armed by delay(), 0 when none
  promise,    \* promise[i]: the promise withRetry returned for operation i
  fnResults,  \* fnResults[i]: how each invocation of operation i settled, in order
  trace,      \* trace[i]: invocations, callbacks, log records and timers of loop i
  signal,     \* the caller's cancellation signal
  batch,      \* the promise retryParallelCalls returned
  tx,         \* the retryTransaction call: its loop state and what it submitted
  probe,      \* one call of a pure function: its arguments and its outcome
  logger,     \* the errorLogger singleton: its context and isDevelopment
  console,    \* the output sink: whether it throws, and what was written to it
  callers,    \* callers[c]: an operation that uses errorLogger directly
  callbacks,  \* whether the policy callbacks of a withRetry call throw
  provider    \* a mounted GlobalErrorProvider

vars ==
  << config, n, pc, attempt, lastError, delayMs, promise, fnResults, trace,
     signal, batch, tx, probe, logger, console, callers, callbacks, provider >>

Pending == [state |-> "pending"]
Fulfilled(v) == [state |-> "fulfilled", value |-> v]
Rejected(e) == [state |-> "rejected", reason |-> e]

Ops == 1..n

\* Number of invocations of operation i so far.
Calls(i) == Len(SelectSeq(trace[i], LAMBDA e : e.ev = "fn"))

\* --------------------------------------------------------------- withRetry
\* Variant: lastError keeps the first failure (lastError ??= error).
assignLastError_first(prev, error) == IF prev = Undefined THEN error ELSE prev

\* retry.ts:101  lastError = error
assignLastError(prev, error) == error

\* Variants: the exhaustion test off by one, either way.
isLastAttempt_early(a, maxRetries) == a >= maxRetries
isLastAttempt_late(a, maxRetries) == a > maxRetries + 1
isLastAttempt_never(a, maxRetries) == FALSE

\* retry.ts:104  attempt > config.maxRetries
isLastAttempt(a, maxRetries) == a > maxRetries

\* Variant: onMaxRetriesReached is called without the error.
onMaxRetriesReachedCall_noArgument(cfg, error) ==
  IF cfg.onMaxRetriesReached
  THEN << [ev |-> "onMaxRetriesReached", error |-> Undefined] >>
  ELSE << >>

\* retry.ts:105-107
onMaxRetriesReachedCall(cfg, error) ==
  IF cfg.onMaxRetriesReached
  THEN << [ev |-> "onMaxRetriesReached", error |-> error] >>
  ELSE << >>

\* Variant: onRetry is handed a zero-based attempt index.
onRetryCall_zeroBased(cfg, a, error) ==
  IF cfg.onRetry
  THEN << [ev |-> "onRetry", attempt |-> a - 1, error |-> error] >>
  ELSE << >>

\* retry.ts:127-129
onRetryCall(cfg, a, error) ==
  IF cfg.onRetry
  THEN << [ev |-> "onRetry", attempt |-> a, error |-> error] >>
  ELSE << >>

\* retry.ts:92  fn() is invoked
Invoke(i) ==
  /\ UNCHANGED << tx, probe, logger, console, callers, callbacks, provider >>
  /\ pc[i] = "ATTEMPTING"
  /\ pc' = [pc EXCEPT ![i] = "PENDING"]
  /\ trace' = [trace EXCEPT ![i] = Append(@, [ev |-> "fn", attempt |-> attempt[i]])]
  /\ UNCHANGED << config, n, attempt, lastError, delayMs, promise, fnResults,
                  signal, batch >>

\* retry.ts:92-99  fn() resolved: log a recovery, return the result
FnResolves(i) ==
  /\ UNCHANGED << tx, probe, logger, console, callers, callbacks, provider >>
  /\ pc[i] = "PENDING"
  /\ \E v \in Values :
       /\ fnResults' = [fnResults EXCEPT ![i] = Append(@, [ok |-> TRUE, value |-> v])]
       /\ trace' = [trace EXCEPT ![i] =
                      @ \o (IF attempt[i] > 1 THEN logInfo("succeeded after retries")
                                               ELSE << >>)]
       /\ promise' = [promise EXCEPT ![i] = Fulfilled(v)]
  /\ pc' = [pc EXCEPT ![i] = "DONE"]
  /\ UNCHANGED << config, n, attempt, lastError, delayMs, signal, batch >>

\* Variant: no fast failure, every failure short of exhaustion is retried.
catchDecision_noFastFail(cfg, a, error) ==
  IF a > cfg.maxRetries THEN "EXHAUSTED" ELSE "RETRY"

\* Variant: the failure is classified on the first attempt only.
catchDecision_classifyOnce(cfg, a, error) ==
  IF a > cfg.maxRetries THEN "EXHAUSTED"
  ELSE IF a = 1 /\ ~isRetryableError(error, cfg.retryableErrors) THEN "FAILED_FAST"
  ELSE "RETRY"

\* retry.ts:104-124  what the catch block decides for the failure of attempt a
catchDecision(cfg, a, error) ==
  IF isLastAttempt(a, cfg.maxRetries) THEN "EXHAUSTED"
  ELSE IF ~isRetryableError(error, cfg.retryableErrors) THEN "FAILED_FAST"
  ELSE "RETRY"

\* error-handler.ts:453-456  outside development logError also hands a record
\* of level error to sendToMonitoringService, which writes a notice
sendToMonitoringService(error) ==
  IF ~logger.isDevelopment /\ getLogLevel(classifyError(error)) = "error"
  THEN << [ev |-> "monitoring"] >>
  ELSE << >>

\* What a policy callback throws when it throws.
CallbackError == JsError(<<"E","r","r","o","r">>, <<"c","a","l","l","b","a","c","k"," ","f","a","i","l","e","d">>)

\* Variant: an exception of the callback is caught and dropped.
onRetryRaises_swallowed(cfg, cb) == FALSE

\* retry.ts:127-129, 105-107  the callback is called and throws; nothing in
\* the catch block catches
onRetryRaises(cfg, cb) == cfg.onRetry /\ cb.onRetryThrows
onMaxRetriesReachedRaises(cfg, cb) ==
  cfg.onMaxRetriesReached /\ cb.onMaxRetriesReachedThrows

\* retry.ts:216-231  retryApiCall passes its own onRetry, which writes a
\* warning and then calls the caller's onRetry (cfg.onRetry) when there is one
retryApiCallOnRetry(cb) ==
  IF cb.viaRetryApiCall THEN logWarning("API call retry attempt") ELSE << >>

\* retry.ts:100-148  fn() rejected: the catch block, up to the await of delay()
\* or to the exception that leaves it
FnRejects(i) ==
  /\ UNCHANGED << tx, probe, logger, console, callers, callbacks, provider >>
  /\ pc[i] = "PENDING"
  /\ \E error \in Errors, random \in RandomDraws :
       LET le == assignLastError(lastError[i], error)
           decision == catchDecision(config, attempt[i], le)
       IN
       /\ fnResults' = [fnResults EXCEPT ![i] = Append(@, [ok |-> FALSE, error |-> error])]
       /\ lastError' = [lastError EXCEPT ![i] = le]
       /\ CASE decision = "EXHAUSTED" /\ onMaxRetriesReachedRaises(config, callbacks) ->
                 /\ trace' = [trace EXCEPT ![i] =
                                @ \o onMaxRetriesReachedCall(config, le)]
                 /\ promise' = [promise EXCEPT ![i] = Rejected(CallbackError)]
                 /\ pc' = [pc EXCEPT ![i] = "THREW"]
                 /\ UNCHANGED delayMs
            [] decision = "EXHAUSTED" /\ ~onMaxRetriesReachedRaises(config, callbacks) ->
                 /\ trace' = [trace EXCEPT ![i] =
                                @ \o onMaxRetriesReachedCall(config, le)
                                  \o logError(le, "failed after retries")
                                  \o sendToMonitoringService(le)]
                 /\ promise' = [promise EXCEPT ![i] = Rejected(le)]
                 /\ pc' = [pc EXCEPT ![i] = "EXHAUSTED"]
                 /\ UNCHANGED delayMs
            [] decision = "FAILED_FAST" ->
                 /\ trace' = [trace EXCEPT ![i] =
                                @ \o logError(le, "non-retryable error")
                                  \o sendToMonitoringService(le)]
                 /\ promise' = [promise EXCEPT ![i] = Rejected(le)]
                 /\ pc' = [pc EXCEPT ![i] = "FAILED_FAST"]
                 /\ UNCHANGED delayMs
            [] decision = "RETRY" /\ onRetryRaises(config, callbacks) ->
                 /\ trace' = [trace EXCEPT ![i] =
                                @ \o retryApiCallOnRetry(callbacks)
                                  \o onRetryCall(config, attempt[i], le)]
                 /\ promise' = [promise EXCEPT ![i] = Rejected(CallbackError)]
                 /\ pc' = [pc EXCEPT ![i] = "THREW"]
                 /\ UNCHANGED delayMs
            [] OTHER ->
                 /\ trace' = [trace EXCEPT ![i] =
                                @ \o retryApiCallOnRetry(callbacks)
                                  \o onRetryCall(config, attempt[i], le)
                                  \o logWarning("retrying after error")
                                  \o << [ev |-> "delay", attempt |-> attempt[i]] >>]
                 /\ delayMs' = [delayMs EXCEPT ![i] =
                                  calculateDelay(attempt[i], config.baseDelay,
                                                 config.maxDelay,
                                                 config.backoffMultiplier, random)]
                 /\ pc' = [pc EXCEPT ![i] = "DELAYING"]
                 /\ UNCHANGED promise
  /\ UNCHANGED << config, n, attempt, signal, batch >>

\* retry.ts:76-78, 148, 90  the timer of delay() fires; attempt++ and the loop test
DelayElapsed(i) ==
  /\ UNCHANGED << tx, probe, logger, console, callers, callbacks, provider >>
  /\ pc[i] = "DELAYING"
  /\ attempt' = [attempt EXCEPT ![i] = @ + 1]
  /\ delayMs' = [delayMs EXCEPT ![i] = 0]
  /\ IF attempt[i] + 1 <= config.maxRetries + 1
     THEN /\ pc' = [pc EXCEPT ![i] = "ATTEMPTING"]
          /\ UNCHANGED promise
     ELSE \* retry.ts:153  throw lastError!
          /\ pc' = [pc EXCEPT ![i] = "EXHAUSTED"]
          /\ promise' = [promise EXCEPT ![i] = Rejected(lastError[i])]
  /\ UNCHANGED << config, n, lastError, fnResults, trace, signal, batch >>

\* The caller raises its cancellation signal.  RetryOptions has no field that
\* could carry it and delay() arms a plain setTimeout, so no step of withRetry
\* reads it.
Abort ==
  /\ UNCHANGED << tx, probe, logger, console, callers, callbacks, provider >>
  /\ ~signal.raised
  /\ \E i \in Ops : pc[i] \in {"ATTEMPTING", "PENDING", "DELAYING"}
  /\ signal' = [raised |-> TRUE, pc |-> pc, calls |-> [i \in Ops |-> Calls(i)]]
  /\ UNCHANGED << config, n, pc, attempt, lastError, delayMs, promise, fnResults,
                  trace, batch >>

\* ------------------------------------------------------ retryParallelCalls
\* Variant: the per-call .catch is missing.
catchWrap_none(p) == p

\* retry.ts:241  withRetry(call, options).catch(error => ({ error }))
catchWrap(p) ==
  IF p.state = "rejected" THEN Fulfilled([error |-> p.reason]) ELSE p

\* Promise.all over promises 1..n: rejected as soon as one is (the reason of
\* the lowest rejected index stands for the first to reject), fulfilled with
\* the values in input order once all are.
PromiseAll(ps) ==
  IF \E i \in DOMAIN ps : ps[i].state = "rejected"
  THEN Rejected(ps[CHOOSE i \in DOMAIN ps :
                      /\ ps[i].state = "rejected"
                      /\ \A j \in DOMAIN ps : ps[j].state = "rejected" => i <= j].reason)
  ELSE IF \A i \in DOMAIN ps : ps[i].state = "fulfilled"
  THEN Fulfilled([i \in DOMAIN ps |-> ps[i].value])
  ELSE Pending

\* retry.ts:250  outcome && typeof outcome === 'object' && 'error' in outcome
isErrorOutcome(outcome) ==
  Truthy(outcome) /\ TypeOf(outcome) = "object" /\ HasProp(outcome, "error")

\* retry.ts:246-257  the forEach over outcomes, pushing in input order
RECURSIVE collect(_, _, _)
collect(outcomes, results, errors) ==
  IF outcomes = << >>
  THEN [results |-> results, errors |-> errors]
  ELSE LET outcome == Head(outcomes) IN
       IF isErrorOutcome(outcome)
       THEN collect(Tail(outcomes), results, Append(errors, outcome.error))
       ELSE collect(Tail(outcomes), Append(results, outcome), errors)

\* retry.ts:240-257  the promises of the batch, as retryParallelCalls awaits them
promises == [i \in Ops |-> catchWrap(promise[i])]

\* retry.ts:244-257  await Promise.all(promises) settles; partition and return
ParallelSettles ==
  /\ UNCHANGED << tx, probe, logger, console, callers, callbacks, provider >>
  /\ batch.state = "pending"
  /\ PromiseAll(promises).state # "pending"
  /\ batch' = IF PromiseAll(promises).state = "rejected"
              THEN PromiseAll(promises)
              ELSE Fulfilled(collect(PromiseAll(promises).value, << >>, << >>))
  /\ UNCHANGED << config, n, pc, attempt, lastError, delayMs, promise, fnResults,
                  trace, signal >>

\* ------------------------------------------------------------ specifications
Merge(a, b) ==
  [k \in DOMAIN a \cup DOMAIN b |-> IF k \in DOMAIN b THEN b[k] ELSE a[k]]

NoOptions == [k \in {} |-> 0]

\* Policies a caller of withRetry passes: retryableErrors and the delay
\* parameters are either left to DEFAULT_RETRY_OPTIONS or given.
RetryableErrorsOptions ==
  { NoOptions, [retryableErrors |-> {}], [retryableErrors |-> {"VALIDATION_ERROR"}] }
DelayOptions == { NoOptions, [baseDelay |-> 100, maxDelay |-> 150] }

CallOptions ==
  { Merge(Merge([maxRetries |-> m, onRetry |-> r, onMaxRetriesReached |-> x], c), d) :
      m \in 0..MaxRetriesBound, r \in BOOLEAN, x \in BOOLEAN,
      c \in RetryableErrorsOptions, d \in DelayOptions }

\* Policies a caller of retryParallelCalls passes: the retry budget varies, the
\* backoff is capped at its base (every wait of the batch is maxDelay long).
BatchOptions ==
  { [maxRetries |-> m, baseDelay |-> 100, maxDelay |-> 100] : m \in 0..MaxRetriesPar }

\* No retryTransaction call and no pure-function call is under way.
TxIdle == tx = [pc |-> "IDLE"]
ProbeIdle == probe = [fn |-> "none"]

\* errorLogger as constructed (error-handler.ts:407, 622), a sink that works,
\* and nothing that calls the logger directly.
LoggerIdle ==
  /\ logger = [context |-> [k \in {} |-> 0], isDevelopment |-> FALSE]
  /\ console = [throws |-> FALSE, writes |-> << >>]
  /\ callers = << >>

\* Policy callbacks that return normally.
CallbacksReturn ==
  callbacks = [onRetryThrows |-> FALSE, onMaxRetriesReachedThrows |-> FALSE,
               viaRetryApiCall |-> FALSE]

\* No GlobalErrorProvider is mounted.
ProviderIdle == provider = [mounted |-> FALSE]

\* Everything outside the call under study is at rest.
RestIdle == LoggerIdle /\ CallbacksReturn /\ ProviderIdle

\* The loops start at `for (let attempt = 1; ...)`.
InitLoops ==
  /\ pc = [i \in Ops |-> "ATTEMPTING"]
  /\ attempt = [i \in Ops |-> 1]
  /\ lastError = [i \in Ops |-> Undefined]
  /\ delayMs = [i \in Ops |-> 0]
  /\ promise = [i \in Ops |-> Pending]
  /\ fnResults = [i \in Ops |-> << >>]
  /\ trace = [i \in Ops |-> << >>]
  /\ signal = [raised |-> FALSE]

\* One call withRetry(fn, options).
Init ==
  /\ \E options \in CallOptions : config = MergeOptions(options)
  /\ n = 1
  /\ batch = [state |-> "none"]
  /\ InitLoops
  /\ TxIdle
  /\ ProbeIdle
  /\ RestIdle

Next ==
  \/ \E i \in Ops : Invoke(i)
  \/ \E i \in Ops : FnResolves(i)
  \/ \E i \in Ops : FnRejects(i)
  \/ \E i \in Ops : DelayElapsed(i)
  \/ Abort

Spec == Init /\ [][Next]_vars

\* One call retryParallelCalls(apiCalls, options).
InitPar ==
  /\ \E options \in BatchOptions : config = MergeOptions(options)
  /\ n \in 0..MaxCalls
  /\ batch = Pending
  /\ InitLoops
  /\ TxIdle
  /\ ProbeIdle
  /\ RestIdle

NextPar ==
  \/ \E i \in Ops : Invoke(i)
  \/ \E i \in Ops : FnResolves(i)
  \/ \E i \in Ops : FnRejects(i)
  \/ \E i \in Ops : DelayElapsed(i)
  \/ ParallelSettles

SpecPar == InitPar /\ [][NextPar]_vars

\* -------------------------------------------------------------- properties
Terminal(i) == pc[i] \in {"DONE", "FAILED_FAST", "EXHAUSTED"}

\* The policy of the call retries this failure.
Retryable(e) == isRetryableError(e, config.retryableErrors)

\* Invocation k of operation i failed with a retryable / non-retryable error.
FailedRetryable(i, k) == ~fnResults[i][k].ok /\ Retryable(fnResults[i][k].error)
FailedNonRetryable(i, k) == ~fnResults[i][k].ok /\ ~Retryable(fnResults[i][k].error)

EventsOf(i, kinds) == SelectSeq(trace[i], LAMBDA e : e.ev \in kinds)

LastResult(i) == fnResults[i][Len(fnResults[i])]

\* C1: an operation that fails with a retryable error on every invocation is
\* invoked exactly maxRetries + 1 times, never more, and withRetry then fails
\* with the operation's (last) error.
C1_AttemptBound ==
  \A i \in Ops :
    /\ Calls(i) <= config.maxRetries + 1
    /\ (Terminal(i) /\ \A k \in DOMAIN fnResults[i] : FailedRetryable(i, k))
         => /\ Calls(i) = config.maxRetries + 1
            /\ Len(fnResults[i]) = config.maxRetries + 1
            /\ pc[i] = "EXHAUSTED"
            /\ promise[i] = Rejected(LastResult(i).error)

C1_Witness ==
  /\ pc[1] = "EXHAUSTED"
  /\ config.maxRetries = 2
  /\ Calls(1) = 3
  /\ \A k \in DOMAIN fnResults[1] : FailedRetryable(1, k)

\* C2: when the first invocation fails with a non-retryable error the call is
\* over at once: one invocation, no backoff timer, no onRetry call, and
\* withRetry fails with that error, whatever maxRetries is.
C2_FastFail ==
  \A i \in Ops :
    (Len(fnResults[i]) >= 1 /\ FailedNonRetryable(i, 1))
      => /\ Terminal(i)
         /\ Calls(i) = 1
         /\ Len(fnResults[i]) = 1
         /\ EventsOf(i, {"delay", "onRetry"}) = << >>
         /\ delayMs[i] = 0
         /\ promise[i] = Rejected(fnResults[i][1].error)

C2_Witness ==
  /\ config.maxRetries = 2
  /\ config.onRetry
  /\ pc[1] = "FAILED_FAST"
  /\ FailedNonRetryable(1, 1)

\* C3: each failure is classified on its own: retryable failures on attempts
\* 1..k-1 and a non-retryable failure on attempt k <= maxRetries end the call
\* after exactly k invocations with the error of attempt k.
C3_ReclassifiedEachAttempt ==
  \A i \in Ops : \A k \in DOMAIN fnResults[i] :
    ( /\ k <= config.maxRetries
      /\ FailedNonRetryable(i, k)
      /\ \A j \in 1..(k - 1) : FailedRetryable(i, j) )
      => /\ pc[i] = "FAILED_FAST"
         /\ Calls(i) = k
         /\ Len(fnResults[i]) = k
         /\ promise[i] = Rejected(fnResults[i][k].error)

C3_Witness ==
  /\ config.maxRetries = 2
  /\ pc[1] = "FAILED_FAST"
  /\ Len(fnResults[1]) = 2
  /\ FailedRetryable(1, 1)
  /\ FailedNonRetryable(1, 2)

\* What a call shows of its first k rounds: invocation j, then onRetry(j, the
\* error of invocation j) when the policy has the callback, then the timer.
RECURSIVE RetryRounds(_, _)
RetryRounds(i, k) ==
  IF k = 0 THEN << >>
  ELSE RetryRounds(i, k - 1)
       \o << [ev |-> "fn", attempt |-> k] >>
       \o (IF config.onRetry
           THEN << [ev |-> "onRetry", attempt |-> k, error |-> fnResults[i][k].error] >>
           ELSE << >>)
       \o << [ev |-> "delay", attempt |-> k] >>

\* C4: k retryable failures (k <= maxRetries) followed by a success give the
\* success value after exactly k + 1 invocations; a supplied onRetry is called
\* exactly k times, the j-th call with (j, error of the j-th failure), after
\* invocation j and before the backoff timer that precedes invocation j + 1.
C4_RecoversAfterRetries ==
  \A i \in Ops :
    LET k == Len(fnResults[i]) - 1 IN
    ( /\ Len(fnResults[i]) >= 1
      /\ k <= config.maxRetries
      /\ LastResult(i).ok
      /\ \A j \in 1..k : FailedRetryable(i, j) )
      => /\ pc[i] = "DONE"
         /\ promise[i] = Fulfilled(LastResult(i).value)
         /\ Calls(i) = k + 1
         /\ Len(EventsOf(i, {"onRetry"})) = (IF config.onRetry THEN k ELSE 0)
         /\ EventsOf(i, {"fn", "onRetry", "delay"})
              = RetryRounds(i, k) \o << [ev |-> "fn", attempt |-> k + 1] >>

C4_Witness ==
  /\ config.onRetry
  /\ pc[1] = "DONE"
  /\ Len(fnResults[1]) = 3
  /\ fnResults[1][1].error # fnResults[1][2].error
  /\ Len(EventsOf(1, {"onRetry"})) = 2

Retried(i, k) == \E x \in DOMAIN trace[i] :
                   trace[i][x].ev = "delay" /\ trace[i][x].attempt = k

\* The failure of invocation k ended the call at once.
FailedFastAt(i, k) ==
  /\ pc[i] = "FAILED_FAST"
  /\ Len(fnResults[i]) = k
  /\ promise[i] = Rejected(fnResults[i][k].error)

\* C6, as stated: with attempts remaining a failure is retried if the
\* classifier calls it retryable or its code is in policy.retryableErrors, and
\* fails fast otherwise.
C6_RetriesIfClassifiedOrListed ==
  \A i \in Ops : \A k \in DOMAIN fnResults[i] :
    (~fnResults[i][k].ok /\ k <= config.maxRetries)
      => LET e == fnResults[i][k].error IN
         IF \/ classifyError(e).isRetryable
            \/ isApiErrorResponse(e) /\ e.error.code \in config.retryableErrors
         THEN Retried(i, k)
         ELSE FailedFastAt(i, k)

\* C6, amended: with attempts remaining a structured error is retried exactly
\* when its code is in policy.retryableErrors (whatever the classifier says of
\* the code), a generic exception exactly when the classifier calls it
\* retryable; every other failure fails fast.
C6_RetriesByListOrClassifier ==
  \A i \in Ops : \A k \in DOMAIN fnResults[i] :
    (~fnResults[i][k].ok /\ k <= config.maxRetries)
      => LET e == fnResults[i][k].error IN
         IF (IF isApiErrorResponse(e)
             THEN e.error.code \in config.retryableErrors
             ELSE classifyError(e).isRetryable)
         THEN Retried(i, k) /\ ~FailedFastAt(i, k)
         ELSE FailedFastAt(i, k) /\ ~Retried(i, k)

C6_Witness ==
  /\ config.maxRetries = 2
  /\ config.retryableErrors = {"VALIDATION_ERROR"}
  /\ Len(fnResults[1]) = 2
  /\ fnResults[1][1] = [ok |-> FALSE, error |-> E_Validation]
  /\ Retried(1, 1)
  /\ fnResults[1][2] = [ok |-> FALSE, error |-> E_RateLimit]
  /\ FailedFastAt(1, 2)

\* C7: with maxRetries = 0 the operation is invoked once at most, nothing is
\* retried (no onRetry call, no backoff timer), and the outcome of that one
\* invocation is the outcome of the call.
C7_ZeroRetries ==
  config.maxRetries = 0 =>
    \A i \in Ops :
      /\ Calls(i) <= 1
      /\ pc[i] # "DELAYING"
      /\ delayMs[i] = 0
      /\ EventsOf(i, {"onRetry", "delay"}) = << >>
      /\ Len(fnResults[i]) >= 1 =>
           /\ Len(fnResults[i]) = 1
           /\ IF fnResults[i][1].ok
              THEN pc[i] = "DONE" /\ promise[i] = Fulfilled(fnResults[i][1].value)
              ELSE pc[i] = "EXHAUSTED" /\ promise[i] = Rejected(fnResults[i][1].error)

C7_Witness ==
  /\ config.maxRetries = 0
  /\ config.onRetry
  /\ pc[1] = "EXHAUSTED"
  /\ FailedRetryable(1, 1)

\* C8, as stated: once the cancellation signal is raised during a backoff
\* wait the operation is not invoked again and the call fails with an error
\* of its own, not one the operation raised.
C8_CancelDuringBackoff ==
  \A i \in Ops :
    (signal.raised /\ signal.pc[i] = "DELAYING")
      => /\ Calls(i) = signal.calls[i]
         /\ Terminal(i) =>
              /\ promise[i].state = "rejected"
              /\ promise[i].reason \notin Errors

\* Loop i stopped for a reason of its own.
OwnTermination(i) ==
  /\ pc[i] = "DONE" =>
       /\ LastResult(i).ok
       /\ \A j \in 1..(Len(fnResults[i]) - 1) : FailedRetryable(i, j)
  /\ pc[i] = "FAILED_FAST" =>
       /\ FailedNonRetryable(i, Len(fnResults[i]))
       /\ Len(fnResults[i]) <= config.maxRetries
  /\ pc[i] = "EXHAUSTED" =>
       /\ ~LastResult(i).ok
       /\ Len(fnResults[i]) = config.maxRetries + 1

\* C9: the batch promise never rejects; it is fulfilled, with {results,
\* errors}, once every loop is over and not before.  Each loop has its own
\* attempt counter, can always take its next step whatever state the others
\* are in, and stops only for a reason found in its own history.
C9_BatchNeverFails ==
  /\ batch.state \in {"pending", "fulfilled"}
  /\ batch.state = "fulfilled" =>
       /\ DOMAIN batch.value = {"results", "errors"}
       /\ \A i \in Ops : Terminal(i)
  /\ (\A i \in Ops : Terminal(i)) =>
       batch.state = "fulfilled" \/ ENABLED ParallelSettles
  /\ \A i \in Ops :
       /\ attempt[i] = Len(EventsOf(i, {"delay"}))
                         + (IF pc[i] = "DELAYING" THEN 0 ELSE 1)
       /\ Calls(i) = (IF pc[i] = "ATTEMPTING" THEN attempt[i] - 1 ELSE attempt[i])
       /\ ~Terminal(i) =>
            ENABLED (Invoke(i) \/ FnResolves(i) \/ FnRejects(i) \/ DelayElapsed(i))
       /\ OwnTermination(i)

C9_Witness ==
  /\ n = 2
  /\ batch.state = "fulfilled"
  /\ pc[1] = "FAILED_FAST"
  /\ Len(fnResults[1]) = 1
  /\ pc[2] = "DONE"
  /\ Len(fnResults[2]) = 2

\* The values of the operations 1..k that succeeded, and the final errors of
\* those that failed, in input order.
RECURSIVE SucceededValues(_)
SucceededValues(k) ==
  IF k = 0 THEN << >>
  ELSE SucceededValues(k - 1)
       \o (IF pc[k] = "DONE" THEN << LastResult(k).value >> ELSE << >>)

RECURSIVE FinalErrors(_)
FinalErrors(k) ==
  IF k = 0 THEN << >>
  ELSE FinalErrors(k - 1)
       \o (IF pc[k] \in {"FAILED_FAST", "EXHAUSTED"}
           THEN << LastResult(k).error >> ELSE << >>)

\* C10, as stated: results holds the value of exactly the operations that
\* succeeded and errors the final error of exactly those that failed, in
\* input order, whatever the values are; so |results| + |errors| = N.
C10_SeparatesByOutcome ==
  batch.state = "fulfilled" =>
    /\ batch.value.results = SucceededValues(n)
    /\ batch.value.errors = FinalErrors(n)
    /\ Len(batch.value.results) + Len(batch.value.errors) = n

\* ======================================================== retryTransaction
\* packages/database/src/utils/transactions.ts

\* Largest maxRetries explored for a retryTransaction call.
MaxTxRetries == 3

\* error instanceof Error: the Error objects of the model are the records
\* JsError builds; a thrown primitive or a plain object is not one.
instanceofError(v) == HasProp(v, "name") /\ HasProp(v, "message")

SERIALIZATION_FAILURE == << "s","e","r","i","a","l","i","z","a","t","i","o","n","_","f","a","i","l","u","r","e" >>
DEADLOCK_DETECTED == << "d","e","a","d","l","o","c","k","_","d","e","t","e","c","t","e","d" >>
COULD_NOT_SERIALIZE == << "c","o","u","l","d"," ","n","o","t"," ","s","e","r","i","a","l","i","z","e"," ","a","c","c","e","s","s" >>

\* Variant: every Error is worth another submission.
txIsRetryable_anyError(error) == instanceofError(error)

\* transactions.ts:126-130
txIsRetryable(error) ==
  /\ instanceofError(error)
  /\ \/ includes(error.message, SERIALIZATION_FAILURE)
     \/ includes(error.message, DEADLOCK_DETECTED)
     \/ includes(error.message, COULD_NOT_SERIALIZE)

\* Variant: the loop gives up one attempt early.
txGivesUp_early(isRetryable, a, maxRetries) == ~isRetryable \/ a >= maxRetries - 1

\* transactions.ts:132  !isRetryable || attempt === maxRetries
txGivesUp(isRetryable, a, maxRetries) == ~isRetryable \/ a = maxRetries

\* Variant: the backoff starts at 100 ms (2^(attempt-1) * 100).
txBackoff_fromOne(a) == Pow(2, a - 1) * 100

\* transactions.ts:137  Math.pow(2, attempt) * 100
txBackoff(a) == Pow(2, a) * 100

\* What a submitted transaction may reject with.
T_Serialization == JsError(<< "E","r","r","o","r" >>, << "s","e","r","i","a","l","i","z","a","t","i","o","n","_","f","a","i","l","u","r","e"," ","o","c","c","u","r","r","e","d" >>)
T_Deadlock == JsError(<< "E","r","r","o","r" >>, << "d","e","a","d","l","o","c","k","_","d","e","t","e","c","t","e","d"," ","i","n"," ","t","r","a","n","s","a","c","t","i","o","n" >>)
T_CouldNotSerialize == JsError(<< "E","r","r","o","r" >>, << "c","o","u","l","d"," ","n","o","t"," ","s","e","r","i","a","l","i","z","e"," ","a","c","c","e","s","s"," ","d","u","e"," ","t","o"," ","c","o","n","c","u","r","r","e","n","t"," ","u","p","d","a","t","e" >>)
T_InvalidData == JsError(<< "E","r","r","o","r" >>, << "I","n","v","a","l","i","d"," ","d","a","t","a" >>)
T_UpperCase == JsError(<< "E","r","r","o","r" >>, << "D","E","A","D","L","O","C","K","_","D","E","T","E","C","T","E","D" >>)
T_PlainObject == [message |-> DEADLOCK_DETECTED]
T_String == Str("deadlock_detected")

TxErrors ==
  { T_Serialization, T_Deadlock, T_CouldNotSerialize, T_InvalidData,
    T_UpperCase, T_PlainObject, T_String }

\* What a submitted transaction may resolve with.
TxValues == {V_Data, Null}

\* transactions.ts:119-121  the loop condition holds: withTransaction submits
\* the transaction to client.$transaction
TxSubmit ==
  /\ tx.pc = "LOOP"
  /\ tx.attempt <= tx.maxRetries
  /\ tx' = [tx EXCEPT !.pc = "PENDING", !.calls = @ + 1]
  /\ UNCHANGED << config, n, pc, attempt, lastError, delayMs, promise,
                  fnResults, trace, signal, batch, probe,
                  logger, console, callers, callbacks, provider >>

\* transactions.ts:119,142  the loop condition fails: throw lastError!
TxLoopExit ==
  /\ tx.pc = "LOOP"
  /\ ~(tx.attempt <= tx.maxRetries)
  /\ tx' = [tx EXCEPT !.pc = "THROWN", !.promise = Rejected(tx.lastError)]
  /\ UNCHANGED << config, n, pc, attempt, lastError, delayMs, promise,
                  fnResults, trace, signal, batch, probe,
                  logger, console, callers, callbacks, provider >>

\* transactions.ts:121  the transaction committed: return its result
TxResolves ==
  /\ tx.pc = "PENDING"
  /\ \E v \in TxValues :
       tx' = [tx EXCEPT !.pc = "RETURNED",
                        !.outcomes = Append(@, [ok |-> TRUE, value |-> v]),
                        !.promise = Fulfilled(v)]
  /\ UNCHANGED << config, n, pc, attempt, lastError, delayMs, promise,
                  fnResults, trace, signal, batch, probe,
                  logger, console, callers, callbacks, provider >>

\* transactions.ts:122-139  the transaction failed: the catch block, up to the
\* await of the timer
TxRejects ==
  /\ tx.pc = "PENDING"
  /\ \E error \in TxErrors :
       LET isRetryable == txIsRetryable(error)
           outcomes == Append(tx.outcomes, [ok |-> FALSE, error |-> error])
       IN
       IF txGivesUp(isRetryable, tx.attempt, tx.maxRetries)
       THEN tx' = [tx EXCEPT !.pc = "THROWN",
                             !.lastError = error,
                             !.outcomes = outcomes,
                             !.promise = Rejected(error)]
       ELSE tx' = [tx EXCEPT !.pc = "DELAYING",
                             !.lastError = error,
                             !.outcomes = outcomes,
                             !.timer = txBackoff(tx.attempt),
                             !.waits = Append(@, [attempt |-> tx.attempt,
                                                  ms |-> txBackoff(tx.attempt)])]
  /\ UNCHANGED << config, n, pc, attempt, lastError, delayMs, promise,
                  fnResults, trace, signal, batch, probe,
                  logger, console, callers, callbacks, provider >>

\* transactions.ts:138,119  the timer fires: attempt++ and back to the loop
\* condition
TxDelayElapsed ==
  /\ tx.pc = "DELAYING"
  /\ tx' = [tx EXCEPT !.pc = "LOOP", !.attempt = @ + 1, !.timer = 0]
  /\ UNCHANGED << config, n, pc, attempt, lastError, delayMs, promise,
                  fnResults, trace, signal, batch, probe,
                  logger, console, callers, callbacks, provider >>

\* No withRetry call is under way.
RetryIdle ==
  /\ config = DEFAULT_RETRY_OPTIONS
  /\ n = 0
  /\ batch = [state |-> "none"]
  /\ InitLoops

\* One call retryTransaction(client, fn, maxRetries), at `let attempt = 1`.
InitTx ==
  /\ \E maxRetries \in 0..MaxTxRetries :
       tx = [pc |-> "LOOP", maxRetries |-> maxRetries, attempt |-> 1,
             lastError |-> Undefined, calls |-> 0, outcomes |-> << >>,
             timer |-> 0, waits |-> << >>, promise |-> Pending]
  /\ RetryIdle
  /\ ProbeIdle
  /\ RestIdle

NextTx ==
  \/ TxSubmit
  \/ TxLoopExit
  \/ TxResolves
  \/ TxRejects
  \/ TxDelayElapsed

SpecTx == InitTx /\ [][NextTx]_vars

\* ------------------------------------------- retryTransaction: properties
\* The message of the failure carries one of the three signatures.
HasSignature(e) ==
  /\ HasProp(e, "message")
  /\ \E s \in {SERIALIZATION_FAILURE, DEADLOCK_DETECTED, COULD_NOT_SERIALIZE} :
       includes(e.message, s)

\* Submission k failed with an exception that carries a signature.
TxFailedWithSignature(k) ==
  /\ ~tx.outcomes[k].ok
  /\ instanceofError(tx.outcomes[k].error)
  /\ HasSignature(tx.outcomes[k].error)

\* C11: retryTransaction submits again only after a failure whose message
\* carries 'serialization_failure', 'deadlock_detected' or 'could not
\* serialize access'; a failure with any other message ends the call there
\* with that failure, so on attempt 1 after exactly one submission, whatever
\* maxRetries is.
C11_ResubmitsOnlyOnSignature ==
  \A k \in 1..Len(tx.outcomes) :
    /\ tx.calls > k => ~tx.outcomes[k].ok /\ HasSignature(tx.outcomes[k].error)
    /\ ~tx.outcomes[k].ok /\ ~HasSignature(tx.outcomes[k].error) =>
         /\ tx.calls = k
         /\ tx.pc = "THROWN"
         /\ tx.promise = Rejected(tx.outcomes[k].error)
         /\ tx.waits = [j \in 1..(k - 1) |-> tx.waits[j]]

C11_Witness ==
  /\ tx.pc = "THROWN"
  /\ tx.maxRetries >= 3
  /\ tx.calls = 1
  /\ tx.outcomes = << [ok |-> FALSE, error |-> T_InvalidData] >>
  /\ tx.promise = Rejected(T_InvalidData)

\* C12: with maxRetries = N, a transaction that fails on every submission
\* with a retryable signature is submitted exactly N times and the call then
\* fails with the error of the last submission; a submission that succeeds
\* is the last one and its result is what the call returns.
C12_SubmitsExactlyMaxRetries ==
  /\ tx.calls <= tx.maxRetries
  /\ ( /\ tx.pc = "THROWN"
       /\ \A k \in 1..Len(tx.outcomes) : TxFailedWithSignature(k) )
     => /\ tx.calls = tx.maxRetries
        /\ Len(tx.outcomes) = tx.calls
        /\ tx.calls >= 1 =>
             tx.promise = Rejected(tx.outcomes[Len(tx.outcomes)].error)
  /\ \A k \in 1..Len(tx.outcomes) :
       tx.outcomes[k].ok =>
         /\ k = Len(tx.outcomes)
         /\ tx.calls = k
         /\ tx.pc = "RETURNED"
         /\ tx.promise = Fulfilled(tx.outcomes[k].value)

C12_Witness ==
  /\ tx.pc = "THROWN"
  /\ tx.maxRetries >= 2
  /\ tx.calls = tx.maxRetries
  /\ \A k \in 1..Len(tx.outcomes) : TxFailedWithSignature(k)
  /\ tx.outcomes[1].error # tx.outcomes[Len(tx.outcomes)].error
  /\ tx.promise = Rejected(tx.outcomes[Len(tx.outcomes)].error)

\* C13: the wait after failed attempt k, for k < maxRetries and a retryable
\* failure, is exactly 2^k * 100 ms (200, 400, 800, ...), with no random
\* part; there is no wait after the final failing attempt nor after a
\* non-retryable failure.
C13_WaitsAreTwoToTheAttempt ==
  LET waited == { k \in 1..Len(tx.outcomes) :
                    TxFailedWithSignature(k) /\ k < tx.maxRetries }
  IN /\ Len(tx.waits) = Cardinality(waited)
     /\ \A j \in 1..Len(tx.waits) :
          /\ j \in waited
          /\ tx.waits[j] = [attempt |-> j, ms |-> Pow(2, j) * 100]
     /\ tx.timer = IF tx.pc = "DELAYING"
                   THEN Pow(2, tx.attempt) * 100
                   ELSE 0

C13_Witness ==
  /\ tx.pc = "THROWN"
  /\ tx.maxRetries = 3
  /\ tx.calls = 3
  /\ TxFailedWithSignature(3)
  /\ tx.waits = << [attempt |-> 1, ms |-> 200], [attempt |-> 2, ms |-> 400] >>

\* ============================================== classifyError as a function
\* The outcome of a call: the value returned or the exception thrown.
Returned(v) == [kind |-> "returned", value |-> v]
Thrown(e) == [kind |-> "thrown", error |-> e]
NotCalled == [kind |-> "none"]

\* The TypeError the engine raises for undefined.toLowerCase() and for a
\* property read on undefined or null.
TypeErrorOfEngine == JsError(<<"T","y","p","e","E","r","r","o","r">>, <<"t","o","L","o","w","e","r","C","a","s","e">>)

\* error-handler.ts:132-133  error.message.toLowerCase() and
\* error.name.toLowerCase() raise a TypeError unless both properties are
\* strings; the values explored carry a string there or lack the property.
readsNameAndMessage(error) == HasProp(error, "message") /\ HasProp(error, "name")

\* A call classifyError(error), error being whatever the caller caught.
classifyErrorCall(error) ==
  IF isApiErrorResponse(error) \/ readsNameAndMessage(error)
  THEN Returned(classifyError(error))
  ELSE Thrown(TypeErrorOfEngine)

\* Structured errors: every ErrorCode and a code the enum does not have.
UnknownCode == "SOMETHING_ELSE"
StructuredErrors == { createErrorResponse(code) : code \in ErrorCode \cup {UnknownCode} }

N_Error == <<"E","r","r","o","r">>
N_TypeError == <<"T","y","p","e","E","r","r","o","r">>
N_ReferenceError == <<"R","e","f","e","r","e","n","c","e","E","r","r","o","r">>
N_SyntaxError == <<"S","y","n","t","a","x","E","r","r","o","r">>
N_ValidationError == <<"V","a","l","i","d","a","t","i","o","n","E","r","r","o","r">>
N_TimeoutError == <<"T","i","m","e","o","u","t","E","r","r","o","r">>
N_NetworkError == <<"N","e","t","w","o","r","k","E","r","r","o","r">>
N_FetchError == <<"F","e","t","c","h","E","r","r","o","r">>

Names ==
  { N_Error, N_TypeError, N_ReferenceError, N_SyntaxError, N_ValidationError,
    N_TimeoutError, N_NetworkError, N_FetchError }

M_Bad == <<"b","a","d">>
M_Empty == << >>
M_NotDefined == <<"x"," ","i","s"," ","n","o","t"," ","d","e","f","i","n","e","d">>
M_FailedToFetch == <<"F","a","i","l","e","d"," ","t","o"," ","f","e","t","c","h">>
M_NetworkDown == <<"N","e","t","w","o","r","k"," ","d","o","w","n">>
M_Timeout == <<"R","e","q","u","e","s","t"," ","T","I","M","E","O","U","T">>
M_Invalid == <<"I","n","v","a","l","i","d"," ","a","r","g","u","m","e","n","t">>
M_Validation == <<"v","a","l","i","d","a","t","i","o","n"," ","f","a","i","l","e","d">>

Messages ==
  { M_Bad, M_Empty, M_NotDefined, M_FailedToFetch, M_NetworkDown, M_Timeout,
    M_Invalid, M_Validation }

\* Generic exceptions: an Error object of each name with each message.
GenericErrors == { JsError(name, message) : name \in Names, message \in Messages }

\* Values a catch clause can also receive: primitives, and objects that are
\* neither an Error nor an ApiErrorResponse.
ThrownOddities ==
  { Undefined, Null, Str("boom"), Num(42), [code |-> "E_FAIL"],
    [message |-> M_Bad], [success |-> FALSE] }

ClassifierInputs == StructuredErrors \cup GenericErrors \cup ThrownOddities

\* classifyError(error) runs to its return or to its throw.
ClassifyErrorReturns ==
  /\ probe.fn = "classifyError"
  /\ probe.out = NotCalled
  /\ probe' = [probe EXCEPT !.out = classifyErrorCall(probe.arg)]
  /\ UNCHANGED << config, n, pc, attempt, lastError, delayMs, promise,
                  fnResults, trace, signal, batch, tx,
                  logger, console, callers, callbacks, provider >>

InitClassify ==
  /\ \E error \in ClassifierInputs :
       probe = [fn |-> "classifyError", arg |-> error, out |-> NotCalled]
  /\ RetryIdle
  /\ TxIdle
  /\ RestIdle

NextClassify == ClassifyErrorReturns

SpecClassify == InitClassify /\ [][NextClassify]_vars

\* ---------------------------------------------- classifyError: properties
ProbeReturned == probe.out.kind = "returned"

\* The argument of the call is a structured error / a generic exception.
ProbeStructured == probe.fn = "classifyError" /\ probe.arg \in StructuredErrors
ProbeGeneric == probe.fn = "classifyError" /\ probe.arg \in GenericErrors

\* The text contains the word, whatever the case of its letters.
ContainsWord(text, word) == includes(toLowerCase(text), word)

W_Network == <<"n","e","t","w","o","r","k">>
W_Fetch == <<"f","e","t","c","h">>
W_Timeout == <<"t","i","m","e","o","u","t">>
W_Validation == <<"v","a","l","i","d","a","t","i","o","n">>
W_Invalid == <<"i","n","v","a","l","i","d">>

DefectClass == Classification(FALSE, FALSE, "critical", "system")
NetworkClass == Classification(TRUE, TRUE, "medium", "network")
ValidationClass == Classification(TRUE, FALSE, "low", "user")
OtherClass == Classification(TRUE, FALSE, "medium", "system")

\* C14: every Classification that classifyError returns is critical whenever
\* it is not operational.
C14_NonOperationalIsCritical ==
  probe.fn = "classifyError" /\ ProbeReturned =>
    (~probe.out.value.isOperational => probe.out.value.severity = "critical")

C14_Witness ==
  /\ probe.fn = "classifyError"
  /\ probe.arg = JsError(N_ReferenceError, M_NotDefined)
  /\ ProbeReturned
  /\ ~probe.out.value.isOperational
  /\ probe.out.value.severity = "critical"

\* C15: classifyError returns a Classification, and throws nothing, for
\* every value that can reach it: a structured error with any code, and a
\* thrown value with any or no name and message.
C15_ClassifyErrorIsTotal ==
  probe.fn = "classifyError" /\ probe.out # NotCalled => ProbeReturned

\* The rows of the table for structured errors, by code.
C16_Row(code) ==
  CASE code \in {"VALIDATION_ERROR", "INVALID_REQUEST", "NOT_FOUND",
                 "RESOURCE_NOT_AVAILABLE"} ->
         [isOperational |-> TRUE, isRetryable |-> FALSE,
          severity |-> "low", category |-> "user"]
    [] code \in {"UNAUTHORIZED", "TOKEN_EXPIRED", "INVALID_TOKEN",
                 "TOKEN_MISSING"} ->
         [isOperational |-> TRUE, isRetryable |-> FALSE,
          severity |-> "medium", category |-> "user"]
    [] code \in {"FORBIDDEN", "OPERATION_NOT_ALLOWED", "CONFLICT"} ->
         [isOperational |-> TRUE, isRetryable |-> FALSE,
          severity |-> "medium", category |-> "business"]
    [] code = "RATE_LIMIT_EXCEEDED" ->
         [isOperational |-> TRUE, isRetryable |-> TRUE,
          severity |-> "medium", category |-> "system"]
    [] code \in {"SERVICE_UNAVAILABLE", "EXTERNAL_SERVICE_ERROR"} ->
         [isOperational |-> TRUE, isRetryable |-> TRUE,
          severity |-> "high", category |-> "network"]
    [] code = "DATABASE_ERROR" ->
         [isOperational |-> TRUE, isRetryable |-> TRUE,
          severity |-> "high", category |-> "system"]
    [] OTHER ->
         [isOperational |-> FALSE, isRetryable |-> FALSE,
          severity |-> "critical", category |-> "system"]

\* C16: a structured error is classified by its code as the table says;
\* INTERNAL_ERROR and every code without a row (BUSINESS_RULE_VIOLATION, an
\* unknown string) get the default, non-operational critical system.
C16_StructuredErrorTable ==
  ProbeStructured /\ probe.out # NotCalled =>
    probe.out = Returned(C16_Row(probe.arg.error.code))

C16_Witness ==
  /\ ProbeStructured
  /\ probe.arg.error.code = "BUSINESS_RULE_VIOLATION"
  /\ probe.out = Returned(DefectClass)

\* The exception is named TypeError or ReferenceError.
NamedAsDefect(error) == error.name \in {N_TypeError, N_ReferenceError}

MessageSaysNetwork(error) ==
  \E w \in {W_Network, W_Fetch, W_Timeout} : ContainsWord(error.message, w)
MessageSaysValidation(error) ==
  \E w \in {W_Validation, W_Invalid} : ContainsWord(error.message, w)

\* C17 as stated: an exception named TypeError or ReferenceError is
\* classified non-operational, non-retryable, critical, system whatever its
\* message, so withRetry never retries it.
C17_DefectNameAnyMessage ==
  ProbeGeneric /\ probe.out # NotCalled /\ NamedAsDefect(probe.arg) =>
    /\ probe.out = Returned(DefectClass)
    /\ ~isRetryableError(probe.arg, config.retryableErrors)

\* C17, amended: an exception named TypeError or ReferenceError is classified
\* non-operational, non-retryable, critical, system when its message
\* contains none of 'network', 'fetch', 'timeout', 'validation', 'invalid';
\* the message is looked at first, so with 'network', 'fetch' or 'timeout'
\* in it the exception is a retryable network failure, and otherwise with
\* 'validation' or 'invalid' in it a non-retryable user failure.
C17_DefectNameUnlessMessageMatches ==
  ProbeGeneric /\ probe.out # NotCalled /\ NamedAsDefect(probe.arg) =>
    IF MessageSaysNetwork(probe.arg)
    THEN /\ probe.out = Returned(NetworkClass)
         /\ isRetryableError(probe.arg, config.retryableErrors)
    ELSE IF MessageSaysValidation(probe.arg)
    THEN /\ probe.out = Returned(ValidationClass)
         /\ ~isRetryableError(probe.arg, config.retryableErrors)
    ELSE /\ probe.out = Returned(DefectClass)
         /\ ~isRetryableError(probe.arg, config.retryableErrors)

C17_Witness ==
  /\ ProbeGeneric
  /\ probe.arg = JsError(N_TypeError, M_Bad)
  /\ probe.out = Returned(DefectClass)

\* The name is one of the programming defects the classifier knows.
DefectName(error) ==
  toLowerCase(error.name) \in
    { toLowerCase(N_TypeError), toLowerCase(N_ReferenceError),
      toLowerCase(N_SyntaxError) }

NameIsValidationError(error) ==
  toLowerCase(error.name) = toLowerCase(N_ValidationError)

\* C18 as stated: 'network', 'fetch' or 'timeout' in the name or in the
\* message makes a retryable network failure; none of them, and 'validation'
\* or 'invalid' in the message or the name ValidationError, a non-retryable
\* user failure; every other exception that is not a defect is operational,
\* non-retryable, medium, system.
C18_NameOrMessage ==
  ProbeGeneric /\ probe.out # NotCalled =>
    LET e == probe.arg
        network == \E w \in {W_Network, W_Fetch, W_Timeout} :
                     ContainsWord(e.name, w) \/ ContainsWord(e.message, w)
        validation == MessageSaysValidation(e) \/ NameIsValidationError(e)
    IN /\ network => probe.out = Returned(NetworkClass)
       /\ ~network /\ validation => probe.out = Returned(ValidationClass)
       /\ ~network /\ ~validation /\ ~DefectName(e) =>
            probe.out = Returned(OtherClass)

\* C18, amended: 'network', 'fetch' or 'timeout' in the message, or
\* 'timeout' in the name, makes a retryable network failure ('network' and
\* 'fetch' in the name alone do not count); otherwise 'validation' or
\* 'invalid' in the message or the name ValidationError, a non-retryable
\* user failure; every other exception that is not a defect is operational,
\* non-retryable, medium, system.
C18_MessageOrTimeoutName ==
  ProbeGeneric /\ probe.out # NotCalled =>
    LET e == probe.arg
        network == MessageSaysNetwork(e) \/ ContainsWord(e.name, W_Timeout)
        validation == MessageSaysValidation(e) \/ NameIsValidationError(e)
    IN /\ network => probe.out = Returned(NetworkClass)
       /\ ~network /\ validation => probe.out = Returned(ValidationClass)
       /\ ~network /\ ~validation /\ ~DefectName(e) =>
            probe.out = Returned(OtherClass)

C18_Witness ==
  /\ ProbeGeneric
  /\ probe.arg = JsError(N_TimeoutError, M_Bad)
  /\ probe.out = Returned(NetworkClass)

\* ============================================= calculateDelay as a function
\* Largest attempt number handed to calculateDelay.
MaxDelayAttempt == 3

\* Math.random() draws in tenths, 0.0 to 0.9.
DelayDraws == 0..9

\* Parameters of a call: policies inside and outside the documented ranges
\* (baseDelay < 0, backoffMultiplier < 1), caps below and above the raw delay
\* and a cap of zero.
DelayInputs ==
  [ attempt : 1..MaxDelayAttempt,
    baseDelay : {-100, 0, 100, 1000},
    maxDelay : {0, 150, 30000},
    backoffMultiplier : {0, 1, 2, 3},
    random : DelayDraws ]

\* A call calculateDelay(attempt, baseDelay, maxDelay, backoffMultiplier):
\* arithmetic only, no parameter is examined and nothing is thrown.
calculateDelayCall(a) ==
  Returned(calculateDelay(a.attempt, a.baseDelay, a.maxDelay,
                          a.backoffMultiplier, a.random))

CalculateDelayReturns ==
  /\ probe.fn = "calculateDelay"
  /\ probe.out = NotCalled
  /\ probe' = [probe EXCEPT !.out = calculateDelayCall(probe.arg)]
  /\ UNCHANGED << config, n, pc, attempt, lastError, delayMs, promise,
                  fnResults, trace, signal, batch, tx,
                  logger, console, callers, callbacks, provider >>

InitDelay ==
  /\ \E a \in DelayInputs :
       probe = [fn |-> "calculateDelay", arg |-> a, out |-> NotCalled]
  /\ RetryIdle
  /\ TxIdle
  /\ RestIdle

NextDelay == CalculateDelayReturns

SpecDelay == InitDelay /\ [][NextDelay]_vars

\* --------------------------------------------- calculateDelay: properties
DelayCalled == probe.fn = "calculateDelay" /\ probe.out # NotCalled

\* The parameters are in the documented ranges.
DelayInRange == probe.arg.baseDelay >= 0 /\ probe.arg.backoffMultiplier >= 1

\* base * multiplier^(attempt-1)
RawDelay == probe.arg.baseDelay * Pow(probe.arg.backoffMultiplier, probe.arg.attempt - 1)

\* C19 as stated: for attempt >= 1, base >= 0, multiplier >= 1 and every
\* jitter draw, the delay is at most max and at least
\* base * multiplier^(attempt-1).
C19_DelayBetweenRawAndMax ==
  DelayCalled /\ DelayInRange =>
    /\ ProbeReturned
    /\ probe.out.value <= probe.arg.maxDelay
    /\ probe.out.value >= RawDelay

\* C19, amended: for attempt >= 1, base >= 0, multiplier >= 1 and every
\* jitter draw, the delay is at most max and at least the smaller of max and
\* base * multiplier^(attempt-1); it is exactly max once
\* base * multiplier^(attempt-1) reaches max.
C19_DelayBetweenCappedRawAndMax ==
  DelayCalled /\ DelayInRange =>
    /\ ProbeReturned
    /\ probe.out.value <= probe.arg.maxDelay
    /\ probe.out.value >= Min(RawDelay, probe.arg.maxDelay)
    /\ RawDelay >= probe.arg.maxDelay => probe.out.value = probe.arg.maxDelay

C19_Witness ==
  /\ DelayCalled
  /\ probe.arg.attempt = 2
  /\ probe.arg.baseDelay = 100
  /\ probe.arg.backoffMultiplier = 2
  /\ probe.arg.maxDelay = 150
  /\ probe.arg.random = 9
  /\ probe.out = Returned(150)

\* C20: calculateDelay fails, reporting an error instead of a duration,
\* when base < 0 or multiplier < 1.
C20_RejectsBadParameters ==
  DelayCalled /\ ~DelayInRange => probe.out.kind = "thrown"

\* C21 as stated: for every attempt >= 1, multiplier >= 1, jitter draw and
\* max value, the delay is strictly positive whenever base > 0.
C21_PositiveForPositiveBase ==
  DelayCalled /\ probe.arg.baseDelay > 0 /\ probe.arg.backoffMultiplier >= 1 =>
    ProbeReturned /\ probe.out.value > 0

\* C21, amended: for every attempt >= 1, multiplier >= 1 and jitter draw,
\* the delay is strictly positive whenever base > 0 and max > 0; with
\* max <= 0 the delay is max itself, so zero or negative.
C21_PositiveForPositiveBaseAndMax ==
  DelayCalled /\ probe.arg.baseDelay > 0 /\ probe.arg.backoffMultiplier >= 1 =>
    /\ ProbeReturned
    /\ probe.arg.maxDelay > 0 => probe.out.value > 0
    /\ probe.arg.maxDelay <= 0 => probe.out.value = probe.arg.maxDelay

C21_Witness ==
  /\ DelayCalled
  /\ probe.arg.attempt = 1
  /\ probe.arg.baseDelay = 100
  /\ probe.arg.backoffMultiplier = 1
  /\ probe.arg.maxDelay = 30000
  /\ probe.arg.random = 0
  /\ probe.out = Returned(100)

\* ================================================== ErrorLogger (errorLogger)
\* o.k for an object o: undefined when the property is absent
GetProp(o, k) == IF k \in DOMAIN o THEN o[k] ELSE Undefined

\* The exception of a console method that fails (a closed stream, a patched
\* console).
SinkError == JsError(<<"E","r","r","o","r">>, <<"s","i","n","k"," ","f","a","i","l","e","d">>)

\* ErrorLogger.serializeError, isDevelopment false or true alike but for the stack
serializeError(error) ==
  IF isApiErrorResponse(error)
  THEN [type |-> "ApiErrorResponse", success |-> error.success, error |-> error.error]
  ELSE [type |-> "JavaScriptError", name |-> error.name, message |-> error.message]

\* The logData object outputLog hands to the console (the timestamp is left out).
LogData(level, message, classification, error, context) ==
  [ kind |-> "record", sink |-> level, level |-> level, message |-> message,
    context |-> context, classification |-> classification,
    error |-> serializeError(error) ]

\* ErrorLogger.sendToMonitoringService: a notice on console.info
MonitoringNotice(level, message, context) ==
  [ kind |-> "monitoring", sink |-> "info", level |-> level, message |-> message,
    traceId |-> GetProp(context, "traceId"), userId |-> GetProp(context, "userId") ]

\* ErrorLogger.logError(error, message, additionalContext), run to its return
\* or to the first exception: what it writes and how it ends.  Nothing in
\* logError, outputLog or sendToMonitoringService catches.
logErrorCall(lg, con, error, message, additionalContext) ==
  LET classified == classifyErrorCall(error) IN
  IF classified.kind = "thrown"
  THEN [wrote |-> << >>, out |-> classified]
  ELSE
    LET classification == classified.value
        level == getLogLevel(classification)
        context == Merge(lg.context, additionalContext)
        record == LogData(level, message, classification, error, context)
    IN IF con.throws
       THEN [wrote |-> << >>, out |-> Thrown(SinkError)]
       ELSE IF ~lg.isDevelopment /\ level = "error"
       THEN [wrote |-> << record, MonitoringNotice(level, message, lg.context) >>,
             out |-> Returned(Undefined)]
       ELSE [wrote |-> << record >>, out |-> Returned(Undefined)]

\* Two operations that use the logger, each with a correlation context of its own.
Callers == {"A", "B"}

OwnContext(c) ==
  [traceId |-> Str("trace-" \o c), userId |-> Str("user-" \o c),
   sessionId |-> Str("session-" \o c)]

\* The failures the operations log: one of each severity, and a thrown
\* value that is no Error.
E_Database == createErrorResponse("DATABASE_ERROR")
LoggedErrors == {E_Type, E_Database, E_RateLimit, E_Validation, Undefined}

\* ErrorLogger.setContext
SetContext(c) ==
  /\ callers[c].pc = "START"
  /\ logger' = [logger EXCEPT !.context = Merge(@, OwnContext(c))]
  /\ callers' = [callers EXCEPT ![c].pc = "CONTEXT_SET"]
  /\ UNCHANGED << config, n, pc, attempt, lastError, delayMs, promise,
                  fnResults, trace, signal, batch, tx, probe, console,
                  callbacks, provider >>

\* ErrorLogger.logError, called by operation c for its failure
LogError(c) ==
  /\ callers[c].pc = "CONTEXT_SET"
  /\ LET run == logErrorCall(logger, console, callers[c].error,
                             Str("operation failed"), NoOptions)
     IN /\ console' = [console EXCEPT !.writes = @ \o run.wrote]
        /\ callers' = [callers EXCEPT
                         ![c].pc = IF run.out.kind = "thrown" THEN "THREW" ELSE "LOGGED",
                         ![c].out = run.out,
                         ![c].wrote = run.wrote]
  /\ UNCHANGED << config, n, pc, attempt, lastError, delayMs, promise,
                  fnResults, trace, signal, batch, tx, probe, logger,
                  callbacks, provider >>

\* ErrorLogger.clearContext, called by operation c when it is done
ClearContext(c) ==
  /\ callers[c].pc = "LOGGED"
  /\ logger' = [logger EXCEPT !.context = NoOptions]
  /\ callers' = [callers EXCEPT ![c].pc = "DONE"]
  /\ UNCHANGED << config, n, pc, attempt, lastError, delayMs, promise,
                  fnResults, trace, signal, batch, tx, probe, console,
                  callbacks, provider >>

InitLog ==
  /\ \E isDevelopment \in BOOLEAN :
       logger = [context |-> NoOptions, isDevelopment |-> isDevelopment]
  /\ \E throws \in BOOLEAN : console = [throws |-> throws, writes |-> << >>]
  /\ \E errors \in [Callers -> LoggedErrors] :
       callers = [c \in Callers |->
                    [pc |-> "START", error |-> errors[c], out |-> NotCalled,
                     wrote |-> << >>]]
  /\ RetryIdle
  /\ TxIdle
  /\ ProbeIdle
  /\ CallbacksReturn
  /\ ProviderIdle

NextLog ==
  \/ \E c \in Callers : SetContext(c)
  \/ \E c \in Callers : LogError(c)
  \/ \E c \in Callers : ClearContext(c)

SpecLog == InitLog /\ [][NextLog]_vars

\* ------------------------------------------------ ErrorLogger: properties
\* Operation c has called logError.
Logged(c) == c \in DOMAIN callers /\ callers[c].pc \in {"LOGGED", "THREW", "DONE"}

\* The records, as opposed to monitoring notices, that c's call wrote.
RecordsOf(c) == SelectSeq(callers[c].wrote, LAMBDA w : w.kind = "record")

\* C22: logError never fails from its caller's perspective: whatever the
\* error value and whatever the sink does, a failure while classifying,
\* building or emitting the record is swallowed and the call returns.
C22_LogErrorNeverFails ==
  \A c \in DOMAIN callers :
    Logged(c) => callers[c].out = Returned(Undefined)

\* The level that goes with a severity.
C23_LevelOf(severity) ==
  CASE severity \in {"critical", "high"} -> "error"
    [] severity = "medium" -> "warn"
    [] severity = "low" -> "info"

\* C23: the level of the record logError emits is decided by the severity
\* of classifyError(error) alone (critical and high: error, medium: warn,
\* low: info), and the record is written exactly once, to the sink of that
\* level.
C23_LevelFromSeverity ==
  \A c \in DOMAIN callers :
    Logged(c) /\ callers[c].out.kind = "returned" =>
      LET level == C23_LevelOf(classifyError(callers[c].error).severity)
      IN /\ Len(RecordsOf(c)) = 1
         /\ RecordsOf(c)[1].level = level
         /\ RecordsOf(c)[1].sink = level
         /\ Len(SelectSeq(callers[c].wrote, LAMBDA w : w.sink = level)) = 1

C23_Witness ==
  /\ Logged("A")
  /\ callers["A"].error = E_RateLimit
  /\ callers["A"].out = Returned(Undefined)
  /\ Len(RecordsOf("A")) = 1
  /\ RecordsOf("A")[1].sink = "warn"
  /\ Logged("B")
  /\ callers["B"].error = E_Type
  /\ ~logger.isDevelopment
  /\ Len(callers["B"].wrote) = 2
  /\ RecordsOf("B")[1].sink = "error"

\* C24: with two operations interleaved, each having set its own
\* correlation context, every record carries the context of the operation
\* that emitted it and never that of the other.
C24_ContextOfTheEmitter ==
  \A c \in DOMAIN callers :
    \A k \in 1..Len(RecordsOf(c)) :
      \A f \in {"traceId", "userId", "sessionId"} :
        GetProp(RecordsOf(c)[k].context, f) = OwnContext(c)[f]

\* ====================================================== GlobalErrorProvider
\* packages/ui/src/components/ErrorBoundary/GlobalErrorContext.tsx

\* Largest maxErrorsInMemory a provider is mounted with.
MaxErrorsBound == 2
\* Number of reportError calls explored.
MaxReports == 4

\* errorReducer, 'ADD_ERROR': the id (Date.now() and a random suffix) is a
\* fresh value, here the number of the report.
reduceAddError(state, payload, id) ==
  [state EXCEPT !.errors = Append(@, [id |-> id, error |-> payload.error,
                                      level |-> payload.level,
                                      source |-> payload.source,
                                      handled |-> FALSE, retryCount |-> 0]),
                !.errorCount = @ + 1,
                !.sessionErrorCount = @ + 1]

\* errorReducer, 'CLEAR_ERROR'
reduceClearError(state, id) ==
  [state EXCEPT !.errors = SelectSeq(@, LAMBDA g : g.id # id)]

\* initialState (lastErrorTime, a clock reading, is left out)
initialState ==
  [errors |-> << >>, isRecovering |-> FALSE, errorCount |-> 0,
   sessionErrorCount |-> 0]

Digits == << "1", "2", "3", "4", "5", "6", "7", "8", "9" >>

\* new Error('Error k'), the k-th error reported
ReportedError(k) == JsError(<<"E","r","r","o","r">>, <<"E","r","r","o","r"," ">> \o << Digits[k] >>)

\* reportError(error), as the closure useCallback last built runs it: it reads
\* the state.errors that closure captured, dispatches to the reducer, logs,
\* and shows a toast when the prop is given.
ReportError ==
  /\ provider.mounted
  /\ provider.reports < MaxReports
  /\ LET k == provider.reports + 1
         error == ReportedError(k)
         payload == [error |-> error, level |-> "component", source |-> "manual"]
         seen == provider.seen
         cleared == IF Len(seen) >= provider.maxErrorsInMemory /\ Len(seen) > 0
                    THEN reduceClearError(provider.state, seen[1].id)
                    ELSE provider.state
         run == logErrorCall(logger, console, error, Str("Global error reported"),
                             [level |-> Str("component"), source |-> Str("manual"),
                              globalErrorHandler |-> TRUE])
     IN /\ console' = [console EXCEPT !.writes = @ \o run.wrote]
        /\ provider' = [provider EXCEPT
                          !.state = reduceAddError(cleared, payload, k),
                          !.reports = k,
                          !.toasts = IF run.out.kind = "returned"
                                        /\ provider.enableToastNotifications
                                        /\ provider.onToastNotification
                                     THEN @ + 1 ELSE @]
  /\ UNCHANGED << config, n, pc, attempt, lastError, delayMs, promise,
                  fnResults, trace, signal, batch, tx, probe, logger,
                  callers, callbacks >>

\* React renders the provider again: useReducer returns the current state;
\* useCallback builds reportError anew only when a dependency changed, and
\* of the state only state.errors.length is one.
Render ==
  /\ provider.mounted
  /\ provider.rendered # provider.state
  /\ provider' = [provider EXCEPT
                    !.rendered = provider.state,
                    !.seen = IF Len(provider.state.errors) # Len(provider.rendered.errors)
                             THEN provider.state.errors
                             ELSE @]
  /\ UNCHANGED << config, n, pc, attempt, lastError, delayMs, promise,
                  fnResults, trace, signal, batch, tx, probe, logger,
                  console, callers, callbacks >>

InitProvider ==
  /\ \E max \in 0..MaxErrorsBound, toast \in BOOLEAN :
       provider = [mounted |-> TRUE, maxErrorsInMemory |-> max,
                   enableToastNotifications |-> TRUE,
                   onToastNotification |-> toast,
                   state |-> initialState, rendered |-> initialState,
                   seen |-> initialState.errors,
                   reports |-> 0, toasts |-> 0]
  /\ RetryIdle
  /\ TxIdle
  /\ ProbeIdle
  /\ LoggerIdle
  /\ CallbacksReturn

NextProvider ==
  \/ ReportError
  \/ Render

SpecProvider == InitProvider /\ [][NextProvider]_vars

\* ---------------------------------------- GlobalErrorProvider: properties
\* The errors reported so far, oldest first.
Reported == [k \in 1..provider.reports |-> ReportedError(k)]

Kept == [j \in 1..Len(provider.state.errors) |-> provider.state.errors[j].error]

\* C25: after any sequence of reportError calls, with or without a render
\* between two of them, the provider keeps at most maxErrorsInMemory errors,
\* and they are the most recently reported ones, in the order of the reports.
C25_KeepsAtMostMaxErrors ==
  provider.mounted =>
    /\ Len(Kept) <= provider.maxErrorsInMemory
    /\ Kept = SubSeq(Reported, Len(Reported) - Len(Kept) + 1, Len(Reported))

\* --------------------------------------- withRetry: callbacks and records
\* The position in trace[i] of the first event of the kind, 0 when none.
FirstIndexOf(i, kind) ==
  IF \E x \in DOMAIN trace[i] : trace[i][x].ev = kind
  THEN CHOOSE x \in DOMAIN trace[i] :
         /\ trace[i][x].ev = kind
         /\ \A y \in 1..(x - 1) : trace[i][y].ev # kind
  ELSE 0

\* The records of trace[i] with the given message.
RecordsSaying(i, messages) ==
  SelectSeq(trace[i], LAMBDA e : e.ev = "log" /\ e.message \in messages)

TerminalMessages == {"failed after retries", "non-retryable error"}

\* C26: a call that ends in EXHAUSTED has invoked onMaxRetriesReached, when
\* the policy has one, exactly once, with the last error, before the failure
\* was logged and thrown; a call that is not EXHAUSTED (running, DONE or
\* FAILED_FAST) has never invoked it.
C26_OnMaxRetriesReachedOnce ==
  \A i \in Ops :
    LET called == EventsOf(i, {"onMaxRetriesReached"}) IN
    IF pc[i] = "EXHAUSTED" /\ config.onMaxRetriesReached
    THEN /\ called = << [ev |-> "onMaxRetriesReached", error |-> LastResult(i).error] >>
         /\ promise[i] = Rejected(LastResult(i).error)
         /\ Len(RecordsSaying(i, {"failed after retries"})) = 1
         /\ FirstIndexOf(i, "onMaxRetriesReached") < Len(trace[i])
         /\ \A x \in 1..FirstIndexOf(i, "onMaxRetriesReached") :
              ~(trace[i][x].ev = "log" /\ trace[i][x].message \in TerminalMessages)
    ELSE called = << >>

C26_Witness ==
  /\ pc[1] = "EXHAUSTED"
  /\ config.onMaxRetriesReached
  /\ config.maxRetries = 1
  /\ fnResults[1] = << [ok |-> FALSE, error |-> E_RateLimit],
                       [ok |-> FALSE, error |-> E_Network] >>
  /\ EventsOf(1, {"onMaxRetriesReached"}) =
       << [ev |-> "onMaxRetriesReached", error |-> E_Network] >>

Fairness ==
  /\ WF_vars(\E i \in Ops : Invoke(i))
  /\ WF_vars(\E i \in Ops : FnResolves(i) \/ FnRejects(i))
  /\ WF_vars(\E i \in Ops : DelayElapsed(i))

SpecFair == Init /\ [][Next]_vars /\ Fairness

\* Number of backoff waits of operation i so far.
Waits(i) == Len(EventsOf(i, {"delay"}))

\* The budget of the call: invocations, waits, and the length of a wait.
WithinBudget(i) ==
  /\ Calls(i) <= config.maxRetries + 1
  /\ Waits(i) <= config.maxRetries
  /\ delayMs[i] <= config.maxDelay

\* C28: a call with maxRetries >= 0 whose invocations and waits complete
\* eventually reaches one of DONE, FAILED_FAST, EXHAUSTED and stays in it,
\* having made at most maxRetries + 1 invocations and at most maxRetries
\* waits, none longer than maxDelay.
C28_TerminatesWithinBudget ==
  /\ <>[](\A i \in Ops : Terminal(i))
  /\ [](\A i \in Ops : WithinBudget(i))
  /\ [][\A i \in Ops : Terminal(i) => pc'[i] = pc[i]]_vars

C28_Witness ==
  /\ pc[1] = "EXHAUSTED"
  /\ config.maxRetries = MaxRetriesBound
  /\ Calls(1) = MaxRetriesBound + 1
  /\ Waits(1) = MaxRetriesBound
  /\ promise[1] = Rejected(LastResult(1).error)

\* ------------------------------------------ retryTransaction: zero budget
\* C29: a call of retryTransaction that fails has submitted the transaction
\* at least once, for every maxRetries (0 included), and fails with the
\* error of a submission it made, never with undefined.
C29_RejectsWithSubmittedError ==
  tx.pc = "THROWN" =>
    /\ tx.calls >= 1
    /\ tx.promise # Rejected(Undefined)
    /\ \E k \in 1..Len(tx.outcomes) :
         /\ ~tx.outcomes[k].ok
         /\ tx.promise = Rejected(tx.outcomes[k].error)

\* ------------------------------------------- withRetry: throwing callbacks
\* Policies with callbacks, the backoff capped at its base.
ThrowingOptions ==
  { [maxRetries |-> m, onRetry |-> r, onMaxRetriesReached |-> x,
     baseDelay |-> 100, maxDelay |-> 100] :
      m \in 0..MaxRetriesPar, r \in BOOLEAN, x \in BOOLEAN }

\* One call withRetry(fn, options), direct or through retryApiCall, whose
\* callbacks return or throw.
InitThrowing ==
  /\ \E options \in ThrowingOptions : config = MergeOptions(options)
  /\ \E r \in BOOLEAN, x \in BOOLEAN, w \in BOOLEAN :
       callbacks = [onRetryThrows |-> r, onMaxRetriesReachedThrows |-> x,
                    viaRetryApiCall |-> w]
  /\ n = 1
  /\ batch = [state |-> "none"]
  /\ InitLoops
  /\ TxIdle
  /\ ProbeIdle
  /\ LoggerIdle
  /\ ProviderIdle

NextThrowing ==
  \/ \E i \in Ops : Invoke(i)
  \/ \E i \in Ops : FnResolves(i)
  \/ \E i \in Ops : FnRejects(i)
  \/ \E i \in Ops : DelayElapsed(i)

SpecThrowing == InitThrowing /\ [][NextThrowing]_vars

\* Invocation k of operation i failed and the catch block went on to call
\* onRetry / onMaxRetriesReached, which threw.
OnRetryThrewAt(i, k) ==
  /\ k <= config.maxRetries
  /\ FailedRetryable(i, k)
  /\ config.onRetry
  /\ callbacks.onRetryThrows

OnMaxRetriesReachedThrewAt(i, k) ==
  /\ k > config.maxRetries
  /\ ~fnResults[i][k].ok
  /\ config.onMaxRetriesReached
  /\ callbacks.onMaxRetriesReachedThrows

\* C30: when onRetry throws, withRetry rejects with the callback's exception,
\* arms no backoff timer and does not invoke the operation again; when
\* onMaxRetriesReached throws, withRetry rejects with the callback's
\* exception and the terminal failure is not logged.
C30_CallbackExceptionPropagates ==
  \A i \in Ops : \A k \in DOMAIN fnResults[i] :
    /\ OnRetryThrewAt(i, k) =>
         /\ pc[i] = "THREW"
         /\ promise[i] = Rejected(CallbackError)
         /\ Len(fnResults[i]) = k
         /\ Calls(i) = k
         /\ delayMs[i] = 0
         /\ Waits(i) = k - 1
         /\ RecordsSaying(i, {"retrying after error"} \cup TerminalMessages)
              = RecordsSaying(i, {"retrying after error"})
         /\ Len(RecordsSaying(i, {"retrying after error"})) = k - 1
    /\ OnMaxRetriesReachedThrewAt(i, k) =>
         /\ pc[i] = "THREW"
         /\ promise[i] = Rejected(CallbackError)
         /\ Calls(i) = k
         /\ RecordsSaying(i, TerminalMessages) = << >>
         /\ EventsOf(i, {"monitoring"}) = << >>
         /\ EventsOf(i, {"onMaxRetriesReached"}) =
              << [ev |-> "onMaxRetriesReached", error |-> fnResults[i][k].error] >>

C30_Witness ==
  /\ pc[1] = "THREW"
  /\ config.maxRetries = 1
  /\ OnRetryThrewAt(1, 1)
  /\ callbacks.viaRetryApiCall
  /\ promise[1] = Rejected(CallbackError)
  /\ EventsOf(1, {"delay"}) = << >>

\* The other half of the case: onMaxRetriesReached threw after a retry.
OnMaxRetriesReachedThrew ==
  /\ pc[1] = "THREW"
  /\ config.maxRetries = 1
  /\ Len(fnResults[1]) = 2
  /\ OnMaxRetriesReachedThrewAt(1, 2)
  /\ promise[1] = Rejected(CallbackError)

====
